---- MODULE Spec2Model ----
(***************************************************************************)
(* Key-metadata records of crypto/keyring/info.go: the four Info variants  *)
(* (localInfo, ledgerInfo, offlineInfo, multiInfo), their accessors, the   *)
(* multisig constructor NewMultiInfo, and marshalInfo / unmarshalInfo over *)
(* the length-prefixed discriminated codec.                                *)
(*                                                                         *)
(* Strings and buffers are sequences of bytes (0..255).  A record is a TLA *)
(* record whose field "variant" is the Go dynamic type and whose other     *)
(* fields are the struct's fields under their Go names.                    *)
(***************************************************************************)
EXTENDS Integers, Sequences, FiniteSets, TLC

VARIABLES info, bz, call, ret, tmp, prevAddr

vars == <<info, bz, call, ret, tmp, prevAddr>>

(***************************************************************************)
(* Bounds of the input universe.                                           *)
(***************************************************************************)
MaxNameLen == 1
LongNameLen == 130
NumKeys == 2
MaxMembers == 2
MaxK == 3
MaxAccount == 1

(***************************************************************************)
(* Input universe.                                                         *)
(***************************************************************************)
NameChars == {97, 98}

LongName == [n \in 1..LongNameLen |-> 97]

Names == UNION {[1..n -> NameChars] : n \in 0..MaxNameLen} \cup {LongName}

PrivKeyArmors == {<<45>>, <<45, 45, 66>>}

Secp256k1 == <<115, 101, 99, 112>>

Ed25519 == <<101, 100>>

MultiAlgo == <<109, 117, 108, 116, 105>>

Algos == {Secp256k1, Ed25519}

Paths == [Account : 0..MaxAccount, AddressIndex : 0..MaxAccount]

SimpleKey(id) == [kind |-> "PubKeySecp256k1", key |-> id]

MultisigKey(k, pks) == [kind |-> "PubKeyMultisigThreshold", K |-> k, PubKeys |-> pks]

SimpleKeys == {SimpleKey(id) : id \in 1..NumKeys}

NestedKeys == {MultisigKey(1, <<SimpleKey(1), SimpleKey(NumKeys)>>)}

MemberKeys == SimpleKeys \cup NestedKeys

MemberLists == UNION {[1..n -> MemberKeys] : n \in 0..MaxMembers}

MultisigKeys == {MultisigKey(k, pks) : k \in 0..MaxK, pks \in MemberLists}

AllPubKeys == SimpleKeys \cup MultisigKeys

IsMultisig(pub) == pub.kind = "PubKeyMultisigThreshold"

(***************************************************************************)
(* Results.                                                                *)
(***************************************************************************)
NilInfo == [variant |-> "nil"]

NoErr == ""

ErrPathUnavailable == "BIP44 Paths are not available for this type"

ErrNotAMultisigKey == "NotAMultisigKey"

ErrUnknownVariant == "UnknownVariant"

ErrTruncatedInput == "TruncatedInput"

ErrTrailingBytes == "TrailingBytes"

ErrMalformedField == "MalformedField"

Returned(v) == [val |-> <<v>>, err |-> NoErr, panic |-> FALSE]

Failed(e) == [val |-> <<>>, err |-> e, panic |-> FALSE]

Panicked == [val |-> <<>>, err |-> NoErr, panic |-> TRUE]

(***************************************************************************)
(* Address derivation of the public-key collaborator: PubKey.Address().    *)
(* A digest of the key's serialization, truncated to one byte.             *)
(***************************************************************************)
PubKeyTagSimple == 17

PubKeyTagMultisig == 34

RECURSIVE EncodeUvarint(_)
EncodeUvarint(n) ==
    IF n < 128 THEN <<n>>
    ELSE <<128 + (n % 128)>> \o EncodeUvarint(n \div 128)

RECURSIVE DecodeUvarint(_)
DecodeUvarint(b) ==
    IF b = <<>> THEN [ok |-> FALSE, val |-> 0, rest |-> <<>>]
    ELSE IF Head(b) < 128 THEN [ok |-> TRUE, val |-> Head(b), rest |-> Tail(b)]
    ELSE LET r == DecodeUvarint(Tail(b))
         IN  [ok |-> r.ok, val |-> (Head(b) - 128) + 128 * r.val, rest |-> r.rest]

RECURSIVE EncodePubKey(_)
RECURSIVE EncodePubKeyList(_)
EncodePubKey(pub) ==
    IF IsMultisig(pub)
    THEN <<PubKeyTagMultisig>> \o EncodeUvarint(pub.K)
             \o EncodeUvarint(Len(pub.PubKeys)) \o EncodePubKeyList(pub.PubKeys)
    ELSE <<PubKeyTagSimple, pub.key>>

EncodePubKeyList(pks) ==
    IF pks = <<>> THEN <<>>
    ELSE EncodePubKey(Head(pks)) \o EncodePubKeyList(Tail(pks))

RECURSIVE Digest(_, _)
Digest(b, h) ==
    IF b = <<>> THEN h ELSE Digest(Tail(b), (h * 31 + Head(b)) % 256)

Address(pub) == Digest(EncodePubKey(pub), 7)

(***************************************************************************)
(* The record shapes: the fields of each struct in declaration order,      *)
(* which is the order the codec writes them in.                            *)
(***************************************************************************)
(* Fault: Algo declared before PrivKeyArmor in localInfo. *)
localInfoFieldsAlgoThird == <<"Name", "PubKey", "Algo", "PrivKeyArmor">>

localInfoFields == <<"Name", "PubKey", "PrivKeyArmor", "Algo">>

ledgerInfoFields == <<"Name", "PubKey", "Path", "Algo">>

offlineInfoFields == <<"Name", "PubKey", "Algo">>

multiInfoFields == <<"Name", "PubKey", "Threshold", "PubKeys">>

FieldsOf(variant) ==
    CASE variant = "localInfo" -> localInfoFields
      [] variant = "ledgerInfo" -> ledgerInfoFields
      [] variant = "offlineInfo" -> offlineInfoFields
      [] variant = "multiInfo" -> multiInfoFields

(***************************************************************************)
(* The discriminated codec:                                                *)
(* [varint length][1-byte variant discriminant][fields in fixed order].    *)
(***************************************************************************)
TagLocal == 1

TagLedger == 2

TagOffline == 3

TagMulti == 4

KnownTags == {TagLocal, TagLedger, TagOffline, TagMulti}

TagOf(variant) ==
    CASE variant = "localInfo" -> TagLocal
      [] variant = "ledgerInfo" -> TagLedger
      [] variant = "offlineInfo" -> TagOffline
      [] variant = "multiInfo" -> TagMulti

VariantOfTag(tag) ==
    CASE tag = TagLocal -> "localInfo"
      [] tag = TagLedger -> "ledgerInfo"
      [] tag = TagOffline -> "offlineInfo"
      [] tag = TagMulti -> "multiInfo"

EncodeString(s) == EncodeUvarint(Len(s)) \o s

EncodePath(p) == EncodeUvarint(p.Account) \o EncodeUvarint(p.AddressIndex)

RECURSIVE EncodeEntries(_)
EncodeEntries(es) ==
    IF es = <<>> THEN <<>>
    ELSE EncodePubKey(Head(es).PubKey) \o EncodeUvarint(Head(es).Weight)
             \o EncodeEntries(Tail(es))

EncodeField(i, f) ==
    CASE f = "Name" -> EncodeString(i.Name)
      [] f = "PubKey" -> EncodePubKey(i.PubKey)
      [] f = "PrivKeyArmor" -> EncodeString(i.PrivKeyArmor)
      [] f = "Path" -> EncodePath(i.Path)
      [] f = "Algo" -> EncodeString(i.Algo)
      [] f = "Threshold" -> EncodeUvarint(i.Threshold)
      [] f = "PubKeys" -> EncodeUvarint(Len(i.PubKeys)) \o EncodeEntries(i.PubKeys)

RECURSIVE EncodeFields(_, _)
EncodeFields(i, fs) ==
    IF fs = <<>> THEN <<>>
    ELSE EncodeField(i, Head(fs)) \o EncodeFields(i, Tail(fs))

MarshalBinaryBare(i) == <<TagOf(i.variant)>> \o EncodeFields(i, FieldsOf(i.variant))

MustMarshalBinaryLengthPrefixed(i) ==
    LET body == MarshalBinaryBare(i) IN EncodeUvarint(Len(body)) \o body

Bad == [ok |-> FALSE, val |-> <<>>, rest |-> <<>>]

Good(v, r) == [ok |-> TRUE, val |-> v, rest |-> r]

DecodeString(b) ==
    LET n == DecodeUvarint(b)
    IN  IF ~n.ok \/ n.val > Len(n.rest) THEN Bad
        ELSE Good(SubSeq(n.rest, 1, n.val), SubSeq(n.rest, n.val + 1, Len(n.rest)))

DecodePath(b) ==
    LET a == DecodeUvarint(b)
    IN  IF ~a.ok THEN Bad
        ELSE LET x == DecodeUvarint(a.rest)
             IN  IF ~x.ok THEN Bad
                 ELSE Good([Account |-> a.val, AddressIndex |-> x.val], x.rest)

RECURSIVE DecodePubKey(_)
RECURSIVE DecodePubKeyList(_, _)
DecodePubKey(b) ==
    IF b = <<>> THEN Bad
    ELSE IF Head(b) = PubKeyTagSimple
    THEN IF Len(b) < 2 THEN Bad
         ELSE Good(SimpleKey(b[2]), SubSeq(b, 3, Len(b)))
    ELSE IF Head(b) = PubKeyTagMultisig
    THEN LET k == DecodeUvarint(Tail(b))
         IN  IF ~k.ok THEN Bad
             ELSE LET n == DecodeUvarint(k.rest)
                  IN  IF ~n.ok THEN Bad
                      ELSE LET l == DecodePubKeyList(n.rest, n.val)
                           IN  IF ~l.ok THEN Bad
                               ELSE Good(MultisigKey(k.val, l.val), l.rest)
    ELSE Bad

DecodePubKeyList(b, n) ==
    IF n = 0 THEN Good(<<>>, b)
    ELSE LET h == DecodePubKey(b)
         IN  IF ~h.ok THEN Bad
             ELSE LET t == DecodePubKeyList(h.rest, n - 1)
                  IN  IF ~t.ok THEN Bad ELSE Good(<<h.val>> \o t.val, t.rest)

RECURSIVE DecodeEntries(_, _)
DecodeEntries(b, n) ==
    IF n = 0 THEN Good(<<>>, b)
    ELSE LET k == DecodePubKey(b)
         IN  IF ~k.ok THEN Bad
             ELSE LET w == DecodeUvarint(k.rest)
                  IN  IF ~w.ok THEN Bad
                      ELSE LET t == DecodeEntries(w.rest, n - 1)
                           IN  IF ~t.ok THEN Bad
                               ELSE Good(<<[PubKey |-> k.val, Weight |-> w.val]>> \o t.val,
                                         t.rest)

DecodeField(f, b) ==
    CASE f = "Name" -> DecodeString(b)
      [] f = "PubKey" -> DecodePubKey(b)
      [] f = "PrivKeyArmor" -> DecodeString(b)
      [] f = "Path" -> DecodePath(b)
      [] f = "Algo" -> DecodeString(b)
      [] f = "Threshold" -> DecodeUvarint(b)
      [] f = "PubKeys" ->
            LET n == DecodeUvarint(b)
            IN  IF ~n.ok THEN Bad ELSE DecodeEntries(n.rest, n.val)

RECURSIVE DecodeFields(_, _, _)
DecodeFields(fs, b, acc) ==
    IF fs = <<>> THEN Good(acc, b)
    ELSE LET r == DecodeField(Head(fs), b)
         IN  IF ~r.ok THEN Bad
             ELSE DecodeFields(Tail(fs), r.rest, acc @@ (Head(fs) :> r.val))

UnmarshalBinaryBare(b) ==
    IF b = <<>> \/ Head(b) \notin KnownTags THEN Failed(ErrUnknownVariant)
    ELSE LET variant == VariantOfTag(Head(b))
             r == DecodeFields(FieldsOf(variant), Tail(b), [variant |-> variant])
         IN  IF ~r.ok \/ r.rest # <<>> THEN Failed(ErrMalformedField)
             ELSE Returned(r.val)

UnmarshalBinaryLengthPrefixed(b) ==
    LET n == DecodeUvarint(b)
    IN  IF ~n.ok \/ n.val > Len(n.rest) THEN Failed(ErrTruncatedInput)
        ELSE IF n.val < Len(n.rest) THEN Failed(ErrTrailingBytes)
        ELSE UnmarshalBinaryBare(n.rest)

(***************************************************************************)
(* localInfo.                                                              *)
(***************************************************************************)
newLocalInfo(name, pub, privArmor, algo) ==
    [variant |-> "localInfo", Name |-> name, PubKey |-> pub,
     PrivKeyArmor |-> privArmor, Algo |-> algo]

NoPath == [ptr |-> "nil", copy |-> <<>>, err |-> ErrPathUnavailable]

localInfoGetType(i) == "TypeLocal"

localInfoGetName(i) == i.Name

localInfoGetPubKey(i) == i.PubKey

localInfoGetAddress(i) == Address(i.PubKey)

localInfoGetAlgo(i) == i.Algo

localInfoGetPath(i) == NoPath

(***************************************************************************)
(* ledgerInfo.  GetPath returns a pointer: "ptr" names the cell it points  *)
(* to, either the fresh local "tmp" holding "copy", or the record's own    *)
(* Path field ("i.Path").                                                  *)
(***************************************************************************)
newLedgerInfo(name, pub, path, algo) ==
    [variant |-> "ledgerInfo", Name |-> name, PubKey |-> pub,
     Path |-> path, Algo |-> algo]

ledgerInfoGetType(i) == "TypeLedger"

ledgerInfoGetName(i) == i.Name

ledgerInfoGetPubKey(i) == i.PubKey

ledgerInfoGetAddress(i) == Address(i.PubKey)

ledgerInfoGetAlgo(i) == i.Algo

(* Fault: GetPath returns &i.Path of a shared record instead of &tmp. *)
ledgerInfoGetPathAliased(i) == [ptr |-> "i.Path", copy |-> <<>>, err |-> NoErr]

ledgerInfoGetPath(i) == [ptr |-> "tmp", copy |-> <<i.Path>>, err |-> NoErr]

(***************************************************************************)
(* offlineInfo.                                                            *)
(***************************************************************************)
newOfflineInfo(name, pub, algo) ==
    [variant |-> "offlineInfo", Name |-> name, PubKey |-> pub, Algo |-> algo]

offlineInfoGetType(i) == "TypeOffline"

offlineInfoGetName(i) == i.Name

offlineInfoGetPubKey(i) == i.PubKey

offlineInfoGetAlgo(i) == i.Algo

offlineInfoGetAddress(i) == Address(i.PubKey)

(* Fault: offlineInfo.GetPath returns a zero path and a nil error. *)
offlineInfoGetPathZero(i) ==
    [ptr |-> "tmp", copy |-> <<[Account |-> 0, AddressIndex |-> 0]>>, err |-> NoErr]

offlineInfoGetPath(i) == NoPath

(***************************************************************************)
(* multiInfo.  NewMultiInfo asserts the key's type without the two-value   *)
(* form, so a key of another type panics.                                  *)
(***************************************************************************)
multisigPubKeyInfo(pk, weight) == [PubKey |-> pk, Weight |-> weight]

(* Fault: the loop index is stored as the weight. *)
NewMultiInfoWeightByIndex(name, pub) ==
    IF ~IsMultisig(pub) THEN Panicked
    ELSE Returned([variant |-> "multiInfo", Name |-> name, PubKey |-> pub,
                   Threshold |-> pub.K,
                   PubKeys |-> [n \in 1..Len(pub.PubKeys) |->
                                   multisigPubKeyInfo(pub.PubKeys[n], n - 1)]])

NewMultiInfo(name, pub) ==
    IF ~IsMultisig(pub) THEN Panicked
    ELSE LET multiPK == pub
             pubKeys == [n \in 1..Len(multiPK.PubKeys) |->
                            multisigPubKeyInfo(multiPK.PubKeys[n], 1)]
         IN  Returned([variant |-> "multiInfo", Name |-> name, PubKey |-> pub,
                       Threshold |-> multiPK.K, PubKeys |-> pubKeys])

multiInfoGetType(i) == "TypeMulti"

multiInfoGetName(i) == i.Name

multiInfoGetPubKey(i) == i.PubKey

(* Fault: the address of the first member instead of the aggregate key. *)
multiInfoGetAddressOfFirstMember(i) ==
    IF i.PubKeys = <<>> THEN Address(i.PubKey) ELSE Address(i.PubKeys[1].PubKey)

multiInfoGetAddress(i) == Address(i.PubKey)

multiInfoGetAlgo(i) == MultiAlgo

multiInfoGetPath(i) == NoPath

(***************************************************************************)
(* The Info interface: dispatch on the dynamic type.                       *)
(***************************************************************************)
GetType(i) ==
    CASE i.variant = "localInfo" -> localInfoGetType(i)
      [] i.variant = "ledgerInfo" -> ledgerInfoGetType(i)
      [] i.variant = "offlineInfo" -> offlineInfoGetType(i)
      [] i.variant = "multiInfo" -> multiInfoGetType(i)

GetName(i) ==
    CASE i.variant = "localInfo" -> localInfoGetName(i)
      [] i.variant = "ledgerInfo" -> ledgerInfoGetName(i)
      [] i.variant = "offlineInfo" -> offlineInfoGetName(i)
      [] i.variant = "multiInfo" -> multiInfoGetName(i)

GetPubKey(i) ==
    CASE i.variant = "localInfo" -> localInfoGetPubKey(i)
      [] i.variant = "ledgerInfo" -> ledgerInfoGetPubKey(i)
      [] i.variant = "offlineInfo" -> offlineInfoGetPubKey(i)
      [] i.variant = "multiInfo" -> multiInfoGetPubKey(i)

GetAddress(i) ==
    CASE i.variant = "localInfo" -> localInfoGetAddress(i)
      [] i.variant = "ledgerInfo" -> ledgerInfoGetAddress(i)
      [] i.variant = "offlineInfo" -> offlineInfoGetAddress(i)
      [] i.variant = "multiInfo" -> multiInfoGetAddress(i)

GetAlgo(i) ==
    CASE i.variant = "localInfo" -> localInfoGetAlgo(i)
      [] i.variant = "ledgerInfo" -> ledgerInfoGetAlgo(i)
      [] i.variant = "offlineInfo" -> offlineInfoGetAlgo(i)
      [] i.variant = "multiInfo" -> multiInfoGetAlgo(i)

GetPath(i) ==
    CASE i.variant = "localInfo" -> localInfoGetPath(i)
      [] i.variant = "ledgerInfo" -> ledgerInfoGetPath(i)
      [] i.variant = "offlineInfo" -> offlineInfoGetPath(i)
      [] i.variant = "multiInfo" -> multiInfoGetPath(i)

(***************************************************************************)
(* encoding info / decoding info.                                          *)
(***************************************************************************)
(* Fault: the bare encoding, without the length prefix. *)
marshalInfoBare(i) == MarshalBinaryBare(i)

marshalInfo(i) == MustMarshalBinaryLengthPrefixed(i)

(* Fault: the decoder's error is dropped. *)
unmarshalInfoErrDropped(b) == [UnmarshalBinaryLengthPrefixed(b) EXCEPT !.err = NoErr]

(* Fault: the length prefix is skipped, not validated. *)
unmarshalInfoNoLengthCheck(b) ==
    LET n == DecodeUvarint(b)
    IN  IF ~n.ok THEN Failed(ErrTruncatedInput) ELSE UnmarshalBinaryBare(n.rest)

unmarshalInfo(b) == UnmarshalBinaryLengthPrefixed(b)

(***************************************************************************)
(* State.  info: the record the owning store holds (NilInfo before one is  *)
(* built).  bz: the store's bytes for it.  call, ret: the last operation   *)
(* and what it returned.  tmp: the local that the pointer returned by      *)
(* ledgerInfo.GetPath points to.  prevAddr: the address the caller got     *)
(* from its first GetAddress on the record.                                *)
(***************************************************************************)
Init ==
    /\ info = NilInfo
    /\ bz = <<>>
    /\ call = [op |-> "init", args |-> <<>>]
    /\ ret = Failed(NoErr)
    /\ tmp = <<>>
    /\ prevAddr = <<>>

Constructed(op, args, rec) ==
    /\ info' = rec
    /\ bz' = <<>>
    /\ call' = [op |-> op, args |-> args]
    /\ ret' = Returned(rec)
    /\ tmp' = <<>>
    /\ prevAddr' = <<>>

(* One record's life: a constructor runs once, on the empty state. *)
CallNewLocalInfo ==
    /\ info = NilInfo
    /\ \E name \in Names, pub \in MemberKeys, privArmor \in PrivKeyArmors, algo \in Algos :
           Constructed("newLocalInfo", <<name, pub, privArmor, algo>>,
                       newLocalInfo(name, pub, privArmor, algo))

CallNewLedgerInfo ==
    /\ info = NilInfo
    /\ \E name \in Names, pub \in MemberKeys, path \in Paths, algo \in Algos :
           Constructed("newLedgerInfo", <<name, pub, path, algo>>,
                       newLedgerInfo(name, pub, path, algo))

CallNewOfflineInfo ==
    /\ info = NilInfo
    /\ \E name \in Names, pub \in MemberKeys, algo \in Algos :
           Constructed("newOfflineInfo", <<name, pub, algo>>,
                       newOfflineInfo(name, pub, algo))

CallNewMultiInfo ==
    /\ info = NilInfo
    /\ \E name \in Names, pub \in AllPubKeys :
           LET r == NewMultiInfo(name, pub)
           IN  IF r.panic
               THEN /\ call' = [op |-> "NewMultiInfo", args |-> <<name, pub>>]
                    /\ ret' = r
                    /\ UNCHANGED <<info, bz, tmp, prevAddr>>
               ELSE Constructed("NewMultiInfo", <<name, pub>>, r.val[1])

Read(op, v) ==
    /\ info # NilInfo
    /\ call' = [op |-> op, args |-> <<>>]
    /\ ret' = Returned(v)
    /\ UNCHANGED <<info, bz, tmp, prevAddr>>

CallGetType == Read("GetType", GetType(info))

CallGetName == Read("GetName", GetName(info))

CallGetPubKey == Read("GetPubKey", GetPubKey(info))

CallGetAlgo == Read("GetAlgo", GetAlgo(info))

CallGetAddress ==
    /\ info # NilInfo
    /\ call' = [op |-> "GetAddress", args |-> <<>>]
    /\ ret' = Returned(GetAddress(info))
    /\ prevAddr' = IF prevAddr = <<>> THEN <<GetAddress(info)>> ELSE prevAddr
    /\ UNCHANGED <<info, bz, tmp>>

CallGetPath ==
    /\ info # NilInfo
    /\ LET r == GetPath(info)
       IN  /\ ret' = IF r.err = NoErr THEN Returned(r.ptr) ELSE Failed(r.err)
           /\ tmp' = IF r.ptr = "tmp" THEN r.copy ELSE tmp
    /\ call' = [op |-> "GetPath", args |-> <<>>]
    /\ UNCHANGED <<info, bz, prevAddr>>

(* The caller assigns through the pointer GetPath returned. *)
WritePath ==
    \E p \in Paths :
        /\ call.op \in {"GetPath", "WritePath"}
        /\ ret.val # <<>>
        /\ call' = [op |-> "WritePath", args |-> <<p>>]
        /\ IF ret.val[1] = "tmp"
           THEN tmp' = <<p>> /\ info' = info
           ELSE info' = [info EXCEPT !.Path = p] /\ tmp' = tmp
        /\ UNCHANGED <<bz, ret, prevAddr>>

(* What the pointer `ptr` returned by GetPath points at. *)
Deref(ptr) == IF ptr = "tmp" THEN tmp[1] ELSE info.Path

CallMarshalInfo ==
    /\ info # NilInfo
    /\ bz' = marshalInfo(info)
    /\ call' = [op |-> "marshalInfo", args |-> <<>>]
    /\ ret' = Returned(marshalInfo(info))
    /\ UNCHANGED <<info, tmp, prevAddr>>

CallUnmarshalInfo ==
    LET r == unmarshalInfo(bz)
    IN  /\ call' = [op |-> "unmarshalInfo", args |-> <<bz>>]
        /\ ret' = r
        /\ bz' = bz
        /\ IF r.val # <<>>
           THEN info' = r.val[1] /\ tmp' = <<>> /\ prevAddr' = <<>>
           ELSE UNCHANGED <<info, tmp, prevAddr>>

(***************************************************************************)
(* Damage to the stored bytes between encoding and decoding.               *)
(***************************************************************************)
TrailingBytes == {0, 255}

ForgedTags == KnownTags \cup {0, 5, 255}

Pristine == info # NilInfo /\ bz # <<>> /\ bz = marshalInfo(info)

Damaged(how, b) ==
    /\ bz' = b
    /\ call' = [op |-> how, args |-> <<>>]
    /\ UNCHANGED <<info, ret, tmp, prevAddr>>

Truncate ==
    /\ Pristine
    /\ Damaged("truncate", SubSeq(bz, 1, Len(bz) - 1))

AppendTrailing ==
    /\ Pristine
    /\ \E x \in TrailingBytes : Damaged("append", bz \o <<x>>)

SetDiscriminant ==
    /\ Pristine
    /\ \E t \in ForgedTags \ {TagOf(info.variant)} :
          Damaged("forge", [bz EXCEPT ![Len(bz) - Len(MarshalBinaryBare(info)) + 1] = t])

Construct ==
    \/ CallNewLocalInfo
    \/ CallNewLedgerInfo
    \/ CallNewOfflineInfo
    \/ CallNewMultiInfo

NextInfo ==
    \/ Construct
    \/ CallGetType
    \/ CallGetName
    \/ CallGetPubKey
    \/ CallGetAddress
    \/ CallGetAlgo
    \/ CallGetPath
    \/ WritePath
    \/ CallMarshalInfo

NextCodec ==
    \/ Construct
    \/ CallMarshalInfo
    \/ CallUnmarshalInfo
    \/ Truncate
    \/ AppendTrailing
    \/ SetDiscriminant

Next == NextInfo \/ NextCodec

SpecInfo == Init /\ [][NextInfo]_vars

SpecCodec == Init /\ [][NextCodec]_vars

Spec == Init /\ [][Next]_vars

(***************************************************************************)
(* Properties.                                                             *)
(***************************************************************************)

(* C1: round trip.  Decoding the bytes marshalInfo produced for a record   *)
(* of any of the four variants succeeds and returns a record of the same   *)
(* variant, equal to the encoded one in every field, the member entries of *)
(* a multiInfo in the same order.                                          *)
C1_RoundTrip ==
    [][(call'.op = "unmarshalInfo" /\ info # NilInfo /\ bz = marshalInfo(info))
         => /\ ret'.err = NoErr
            /\ ~ret'.panic
            /\ ret'.val = <<info>>
            /\ info' = info]_vars

C1_Witness ==
    /\ call.op = "unmarshalInfo"
    /\ ret.err = NoErr
    /\ ret.val = <<info>>
    /\ call.args[1] = marshalInfo(info)
    /\ info.variant = "multiInfo"
    /\ Len(info.PubKeys) >= 2
    /\ info.PubKeys[1] # info.PubKeys[2]

(* C2: GetPath succeeds exactly on a ledgerInfo, where the pointer it      *)
(* returns holds the record's path; on a localInfo, offlineInfo or         *)
(* multiInfo it returns a nil pointer and the paths-not-available error.   *)
C2_GetPathOnlyLedger ==
    call.op = "GetPath" =>
        IF info.variant = "ledgerInfo"
        THEN /\ ret.err = NoErr
             /\ ret.val # <<>>
             /\ Deref(ret.val[1]) = info.Path
        ELSE /\ ret.val = <<>>
             /\ ret.err = ErrPathUnavailable

C2_Witness ==
    /\ call.op = "GetPath"
    /\ info.variant = "ledgerInfo"
    /\ ret.err = NoErr
    /\ Deref(ret.val[1]) = [Account |-> 1, AddressIndex |-> 0]

(* C3: NewMultiInfo on an aggregate key with members M and threshold K     *)
(* returns a multiInfo with Threshold = K and Len(M) entries, entry n      *)
(* holding M[n] with weight 1, also when M[n] is itself an aggregate.      *)
C3_NewMultiInfoFlatWeights ==
    (call.op = "NewMultiInfo" /\ IsMultisig(call.args[2])) =>
        /\ ~ret.panic
        /\ ret.err = NoErr
        /\ ret.val = <<info>>
        /\ info.variant = "multiInfo"
        /\ info.Name = call.args[1]
        /\ info.Threshold = call.args[2].K
        /\ Len(info.PubKeys) = Len(call.args[2].PubKeys)
        /\ \A n \in 1..Len(info.PubKeys) :
              /\ info.PubKeys[n].PubKey = call.args[2].PubKeys[n]
              /\ info.PubKeys[n].Weight = 1

C3_Witness ==
    /\ call.op = "NewMultiInfo"
    /\ IsMultisig(call.args[2])
    /\ call.args[2].K = 2
    /\ Len(info.PubKeys) = 2
    /\ IsMultisig(info.PubKeys[1].PubKey)
    /\ ~IsMultisig(info.PubKeys[2].PubKey)
    /\ info.PubKeys[1].Weight = 1

(* C4: NewMultiInfo on a key that is not a threshold aggregate returns the *)
(* NotAMultisigKey error as a value, and no record.                        *)
C4_NotAMultisigKeyReturned ==
    (call.op = "NewMultiInfo" /\ ~IsMultisig(call.args[2])) =>
        /\ ~ret.panic
        /\ ret.err = ErrNotAMultisigKey
        /\ ret.val = <<>>

(* C5: decoding a well-framed buffer whose discriminant is none of the     *)
(* four known tags fails with UnknownVariant and returns no record of any  *)
(* variant.                                                                *)
C5_UnknownVariantRejected ==
    call.op = "unmarshalInfo" =>
        LET n == DecodeUvarint(call.args[1])
        IN  (n.ok /\ n.val = Len(n.rest) /\ n.val >= 1 /\ Head(n.rest) \notin KnownTags)
              => /\ ret.err = ErrUnknownVariant
                 /\ ret.val = <<>>
                 /\ ~ret.panic

C5_Witness ==
    /\ call.op = "unmarshalInfo"
    /\ info.variant = "localInfo"
    /\ call.args[1] # <<>>
    /\ LET n == DecodeUvarint(call.args[1])
       IN  n.ok /\ n.val = Len(n.rest) /\ n.val >= 1 /\ Head(n.rest) = 255
    /\ ret.err = ErrUnknownVariant

(* C6: decoding a record's encoding with its last byte removed fails with  *)
(* TruncatedInput, and decoding it with bytes appended fails with          *)
(* TrailingBytes; neither returns a record.                                *)
C6_LengthPrefixValidated ==
    (call.op = "unmarshalInfo" /\ info # NilInfo) =>
        LET m == marshalInfo(info)
            b == call.args[1]
        IN  /\ b = SubSeq(m, 1, Len(m) - 1)
                 => ret.err = ErrTruncatedInput /\ ret.val = <<>>
            /\ (Len(b) > Len(m) /\ SubSeq(b, 1, Len(m)) = m)
                 => ret.err = ErrTrailingBytes /\ ret.val = <<>>

C6_Witness ==
    /\ call.op = "unmarshalInfo"
    /\ info # NilInfo
    /\ info.Name = LongName
    /\ call.args[1] = SubSeq(marshalInfo(info), 1, Len(marshalInfo(info)) - 1)
    /\ ret.err = ErrTruncatedInput

(* C7: GetAddress returns the address derived from GetPubKey, for every    *)
(* variant; no record stores an address; a later call returns what the     *)
(* first call returned.                                                    *)
C7_AddressDerived ==
    call.op = "GetAddress" =>
        /\ ret.val = <<Address(GetPubKey(info))>>
        /\ "Address" \notin DOMAIN info
        /\ prevAddr = ret.val

C7_Witness ==
    /\ call.op = "GetAddress"
    /\ info.variant = "multiInfo"
    /\ Len(info.PubKeys) >= 1
    /\ ret.val # <<Address(info.PubKeys[1].PubKey)>>

(* C8: every multiInfo has Threshold <= number of member entries.          *)
C8_ThresholdAtMostMembers ==
    info.variant = "multiInfo" => info.Threshold <= Len(info.PubKeys)

(* C9: a record does not change after construction: no accessor call, no   *)
(* marshalInfo, and no assignment through the pointer GetPath returned     *)
(* changes any field of it.                                                *)
C9_Immutable ==
    [][(info # NilInfo /\ call'.op \in {"GetType", "GetName", "GetPubKey", "GetAddress",
                                         "GetAlgo", "GetPath", "WritePath", "marshalInfo"})
         => info' = info]_vars

C9_Witness ==
    /\ call.op = "WritePath"
    /\ info.variant = "ledgerInfo"
    /\ tmp # <<>>
    /\ tmp # <<info.Path>>

(* C10: the bytes of a localInfo, ledgerInfo or offlineInfo are the length *)
(* prefix, the discriminant, then name, public key, the variant's own      *)
(* field, and the signing algorithm last.                                  *)
C10_AlgoLast ==
    (call.op = "marshalInfo" /\ info.variant \in {"localInfo", "ledgerInfo", "offlineInfo"}) =>
        LET fs == FieldsOf(info.variant)
            own == CASE info.variant = "localInfo" -> EncodeString(info.PrivKeyArmor)
                     [] info.variant = "ledgerInfo" -> EncodePath(info.Path)
                     [] info.variant = "offlineInfo" -> <<>>
            body == <<TagOf(info.variant)>> \o EncodeString(info.Name)
                        \o EncodePubKey(info.PubKey) \o own \o EncodeString(info.Algo)
        IN  /\ fs[Len(fs)] = "Algo"
            /\ bz = EncodeUvarint(Len(body)) \o body

C10_Witness ==
    /\ call.op = "marshalInfo"
    /\ info.variant = "localInfo"
    /\ info.PrivKeyArmor # info.Algo
    /\ bz = marshalInfo(info)

====
